---------------------------- MODULE Spec2Model ----------------------------
(***************************************************************************)
(* A model of the whitespace tool: the content transform                  *)
(* (WhitespaceProcessor::process_content), the per-file pipeline          *)
(* (WhitespaceProcessor::process_file) over a filesystem capability, and   *)
(* the parallel engine (ParallelEngine::process_files_with_results).       *)
(*                                                                         *)
(* Text is a sequence of bytes.  Only one-byte (ASCII) characters and one  *)
(* byte that can never occur in valid UTF-8 are modelled, so a text is     *)
(* valid UTF-8 exactly when it holds no BadByte.                           *)
(***************************************************************************)
EXTENDS Integers, Sequences, FiniteSets, TLC

VARIABLES
    text,          \* process_content: the input text
    pass1,         \* its result as <<result>>, <<>> before the call
    pass2,         \* the result of process_content on pass1's text, likewise
    stage,         \* "input", "once", "twice"
    fs,            \* the filesystem: path -> File(bytes), or Missing
    fs0,           \* the filesystem when the run started
    writable,      \* path -> whether fs.write succeeds on it
    files,         \* the path list handed to process_files_with_results
    dry_run,       \* its dry_run argument
    threads,       \* size of the worker pool
    claimed,       \* indices of files a worker has taken
    wk,            \* worker -> its position inside process_file
    slots,         \* index -> the (path, result) pair the map produced, <<>> before
    writes,        \* the fs.write calls issued, in order
    file_results,  \* the collected Vec<(PathBuf, ProcessingResult)>
    summary,       \* the ProcessingSummary of aggregate_results as <<summary>>
    raced,         \* MemFs: calls of two threads have overlapped on the RefCell
    fault,         \* indices of the files whose process_file panicked
    pc,            \* "running", "done", "panicked", or "off" (no run)
    tree,          \* the walker: what the directory under root holds on disk
    run,           \* run(): the state of its loop over the targets, <<>> when none
    pool,          \* rayon's global thread pool as <<size>>, <<>> before it is built
    arg,           \* the arguments of the function under study, <<>> when none
    ret,           \* what it returned as <<value>>, <<>> before the call
    previous       \* the finished earlier run over the same paths as <<run>>, else <<>>

contentVars == <<text, pass1, pass2, stage>>

engineVars == <<fs, fs0, writable, files, dry_run, threads, claimed, wk, slots,
                writes, file_results, summary, raced, fault, pc>>

callVars == <<run, tree, pool, arg, ret, previous>>

vars == <<contentVars, engineVars, callVars>>

(***************************************************************************)
(* Bounds of the model.                                                    *)
(***************************************************************************)
MaxLen == 6

MaxFiles == 2

MaxThreads == 2

MaxSample == 2

MaxFileSize == 1

\* the number of CPUs of the host (num_cpus::get)
NumCpus == 2

\* the number of engine constructions in one process
MaxCalls == 2

\* the number of target directories of one run
MaxTargets == 2

\* the largest line number handed to format_line_numbers
MaxLine == 11

(***************************************************************************)
(* Bytes.                                                                  *)
(***************************************************************************)
NUL == 0
TAB == 9
LF == 10
CR == 13
SP == 32
LetterA == 97
BadByte == 255

\* char::is_whitespace on the one-byte characters (White_Space property)
Whitespace == {9, 10, 11, 12, 13, 32}

\* the characters the checked texts are built from
TextChars == {LetterA, SP, TAB, CR, LF}

None == "None"

(***************************************************************************)
(* Helpers on sequences.                                                   *)
(***************************************************************************)
Last(s) == s[Len(s)]

Front(s) == SubSeq(s, 1, Len(s) - 1)

EndsWith(s, c) == s # <<>> /\ Last(s) = c

\* index of the first c in s, 0 when there is none
FirstIndex(s, c) ==
    IF \E i \in 1..Len(s) : s[i] = c
    THEN CHOOSE i \in 1..Len(s) : s[i] = c /\ \A j \in 1..(i - 1) : s[j] # c
    ELSE 0

RECURSIVE SumSeq(_)
SumSeq(s) == IF s = <<>> THEN 0 ELSE s[1] + SumSeq(Tail(s))

(***************************************************************************)
(* str::lines(): split_inclusive('\n'), then each piece loses its '\n'     *)
(* and, only when it had one, one '\r' before it.                          *)
(***************************************************************************)
RECURSIVE SplitInclusive(_)
SplitInclusive(s) ==
    IF s = <<>> THEN <<>>
    ELSE LET k == FirstIndex(s, LF)
         IN  IF k = 0 THEN <<s>>
             ELSE <<SubSeq(s, 1, k)>> \o SplitInclusive(SubSeq(s, k + 1, Len(s)))

LinesMap(piece) ==
    IF EndsWith(piece, LF)
    THEN LET l == Front(piece)
         IN  IF EndsWith(l, CR) THEN Front(l) ELSE l
    ELSE piece

Lines(s) ==
    LET pieces == SplitInclusive(s)
    IN  [i \in 1..Len(pieces) |-> LinesMap(pieces[i])]

(***************************************************************************)
(* str::trim_end(): drop the maximal suffix of whitespace characters.      *)
(***************************************************************************)
\* a trim that drops at most one trailing character
TrimEndOnce(line) ==
    IF line # <<>> /\ Last(line) \in Whitespace THEN Front(line) ELSE line

RECURSIVE TrimEndSpaces(_)
\* a trim that knows only the space character
TrimEndSpaces(line) ==
    IF line # <<>> /\ Last(line) = SP THEN TrimEndSpaces(Front(line)) ELSE line

RECURSIVE TrimEnd(_)
TrimEnd(line) ==
    IF line # <<>> /\ Last(line) \in Whitespace THEN TrimEnd(Front(line)) ELSE line

(***************************************************************************)
(* [&str]::join(sep)                                                       *)
(***************************************************************************)
RECURSIVE Concat(_)
\* a join that forgets the separator
Concat(parts) ==
    IF parts = <<>> THEN <<>> ELSE parts[1] \o Concat(Tail(parts))

JoinNoSeparator(parts, sep) == Concat(parts)

RECURSIVE Join(_, _)
Join(parts, sep) ==
    IF parts = <<>> THEN <<>>
    ELSE IF Len(parts) = 1 THEN parts[1]
    ELSE parts[1] \o sep \o Join(Tail(parts), sep)

(***************************************************************************)
(* process_content                                                         *)
(***************************************************************************)
\* enumerate() counts from 0; the recorded number is line_num + 1
LineNumberZeroBased(line_num) == line_num

LineNumber(line_num) == line_num + 1

\* a reassembly that always terminates the text
ReassembleAlways(content, processed_lines) ==
    Join(processed_lines, <<LF>>) \o <<LF>>

Reassemble(content, processed_lines) ==
    IF EndsWith(content, LF)
    THEN Join(processed_lines, <<LF>>) \o <<LF>>
    ELSE Join(processed_lines, <<LF>>)

HadTrailing(original_len, trimmed_len) == trimmed_len < original_len

process_content(content) ==
    LET lines == Lines(content)
        n == Len(lines)
        processed_lines == [i \in 1..n |-> TrimEnd(lines[i])]
        changed(i) == HadTrailing(Len(lines[i]), Len(processed_lines[i]))
        line_nums == [i \in 1..n |-> i - 1]
        hit == SelectSeq(line_nums, LAMBDA k : changed(k + 1))
        deltas == [i \in 1..n |->
                     IF changed(i) THEN Len(lines[i]) - Len(processed_lines[i]) ELSE 0]
    IN  [processed |-> Reassemble(content, processed_lines),
         modified  |-> [j \in 1..Len(hit) |-> LineNumber(hit[j])],
         saved     |-> SumSeq(deltas)]


(***************************************************************************)
(* is_binary_content                                                       *)
(***************************************************************************)
DefaultSampleSize == 8192

DefaultConfig == [check_null_bytes |-> TRUE, sample_size |-> DefaultSampleSize]

Min(a, b) == IF a < b THEN a ELSE b

\* a scan of the whole content, whatever the sample size
is_binary_content_whole(config, content) ==
    IF ~config.check_null_bytes THEN FALSE
    ELSE \E i \in 1..Len(content) : content[i] = NUL

is_binary_content(config, content) ==
    IF ~config.check_null_bytes THEN FALSE
    ELSE LET sample_size == Min(config.sample_size, Len(content))
         IN  \E i \in 1..sample_size : content[i] = NUL

\* a lossy decoding, which accepts every byte sequence
from_utf8_lossy_ok(content) == TRUE

\* String::from_utf8 on the modelled bytes
from_utf8_ok(content) == \A i \in 1..Len(content) : content[i] # BadByte

(***************************************************************************)
(* ProcessingResult and the outcomes of process_file                       *)
(***************************************************************************)
File(bytes) == [exists |-> TRUE, bytes |-> bytes]

\* a path fs.read fails on
Missing == [exists |-> FALSE, bytes |-> <<>>]

ReadError == "Failed to read file"

BinaryError == "Binary file detected"

Utf8Error == "Invalid UTF-8 encoding"

WriteError == "Failed to write file"

FaultError == "Processing failed"

ProcessingResult(lines_modified, had_changes, error) ==
    [lines_modified |-> lines_modified, had_changes |-> had_changes, error |-> error]

\* an error result that reports a change
ErrorResultChanged(error) == ProcessingResult(<<>>, TRUE, error)

\* the result of the early returns: no lines, no changes, the error
ErrorResult(error) == ProcessingResult(<<>>, FALSE, error)

\* a write failure reported like the other errors
WriteFailureResultEmpty(modified_lines, had_changes) == ErrorResult(WriteError)

\* the result when fs.write fails: the lines and had_changes as computed
WriteFailureResult(modified_lines, had_changes) ==
    ProcessingResult(modified_lines, had_changes, WriteError)

\* process_file returns Result<ProcessingResult>
Ok(result) == [ok |-> TRUE, value |-> result]

\* a write-back test that forgets to look for changes
ShouldWriteUnchanged(dry, had_changes) == ~dry

\* the write-back test without the dry-run half
ShouldWriteAlways(dry, had_changes) == had_changes

ShouldWrite(dry, had_changes) == ~dry /\ had_changes

\* a closure that pairs every result with the first path of the list
MapResultFirstPath(path, r) ==
    <<files[1], IF r.ok THEN r.value ELSE ErrorResult(FaultError)>>

\* the closure of the parallel map: unwrap_or_else on process_file's Result
MapResult(path, r) ==
    <<path, IF r.ok THEN r.value ELSE ErrorResult(FaultError)>>

(***************************************************************************)
(* aggregate_results                                                       *)
(***************************************************************************)
\* the classification with the else dropped: every changed result is "modified"
CountsAsModifiedLoose(result) == result.had_changes

CountsAsError(result) == result.error # None

\* the else-if arm: reached only by a result without an error
CountsAsModified(result) == ~CountsAsError(result) /\ result.had_changes

\* the loop over the results: one pass, a counter per arm
aggregate_results(results) ==
    [files_processed   |-> Len(results),
     files_modified    |->
        Cardinality({i \in 1..Len(results) : CountsAsModified(results[i])}),
     files_with_errors |->
        Cardinality({i \in 1..Len(results) : CountsAsError(results[i])})]

(***************************************************************************)
(* The states a run starts from                                            *)
(***************************************************************************)
Paths == 1..MaxFiles

Workers == 1..threads

Clean == <<LetterA, LF>>

Dirty == <<LetterA, SP, LF>>

DirtyCrLf == <<LetterA, SP, CR, LF>>

DirtyTail == <<LetterA, LF, SP>>

Binary == <<NUL, SP, LF>>

BadUtf8 == <<BadByte, SP, LF>>

\* what a path can hold when the run starts, and whether it can be written
DiskStates ==
    {[content |-> File(c), writable |-> TRUE] :
        c \in {Clean, Dirty, DirtyCrLf, DirtyTail, Binary, BadUtf8}}
    \cup {[content |-> Missing, writable |-> TRUE],
          [content |-> File(Dirty), writable |-> FALSE]}

\* the duplicate-free path lists
PathLists ==
    {l \in UNION {[1..n -> Paths] : n \in 0..MaxFiles} :
        \A i, j \in 1..Len(l) : i # j => l[i] # l[j]}

Idle == [st |-> "idle", idx |-> 0, content |-> <<>>, processed |-> <<>>,
         modified |-> <<>>]

NoCall ==
    /\ tree = <<>>
    /\ pool = <<>>
    /\ run = <<>>
    /\ arg = <<>>
    /\ ret = <<>>
    /\ previous = <<>>

NoContent ==
    /\ text = <<>>
    /\ pass1 = <<>>
    /\ pass2 = <<>>
    /\ stage = "off"

Init ==
    /\ NoContent
    /\ NoCall
    /\ \E d \in [Paths -> DiskStates] :
          /\ fs = [p \in Paths |-> d[p].content]
          /\ writable = [p \in Paths |-> d[p].writable]
    /\ fs0 = fs
    /\ files \in PathLists
    /\ dry_run \in BOOLEAN
    /\ threads \in 1..MaxThreads
    /\ claimed = {}
    /\ wk = [w \in 1..threads |-> Idle]
    /\ slots = [i \in 1..Len(files) |-> <<>>]
    /\ writes = <<>>
    /\ file_results = <<>>
    /\ summary = <<>>
    /\ raced = FALSE
    /\ fault = {}
    /\ pc = "running"

(***************************************************************************)
(* process_file, one step per filesystem call                              *)
(***************************************************************************)
\* a worker takes the next file and process_file reads it (fs.read)
StartFile(w, i) ==
    /\ pc = "running"
    /\ wk[w].st = "idle"
    /\ i \in (1..Len(files)) \ claimed
    /\ claimed' = claimed \cup {i}
    /\ IF ~fs[files[i]].exists
       THEN /\ slots' = [slots EXCEPT ![i] =
                    MapResult(files[i], Ok(ErrorResult(ReadError)))]
            /\ UNCHANGED wk
       ELSE /\ wk' = [wk EXCEPT ![w] =
                    [Idle EXCEPT !.st = "read", !.idx = i, !.content = fs[files[i]].bytes]]
            /\ UNCHANGED slots
    /\ UNCHANGED <<callVars, contentVars, fs, fs0, writable, files, dry_run, threads, writes,
                   file_results, summary, raced, fault, pc>>

\* binary check, decoding and process_content on the bytes read
Transform(w) ==
    /\ pc = "running"
    /\ wk[w].st = "read"
    /\ LET i == wk[w].idx
           content == wk[w].content
           r == process_content(content)
           had_changes == r.modified # <<>>
           done(result) ==
               /\ slots' = [slots EXCEPT ![i] = MapResult(files[i], Ok(result))]
               /\ wk' = [wk EXCEPT ![w] = Idle]
       IN  IF is_binary_content(DefaultConfig, content)
           THEN done(ErrorResult(BinaryError))
           ELSE IF ~from_utf8_ok(content)
           THEN done(ErrorResult(Utf8Error))
           ELSE IF ShouldWrite(dry_run, had_changes)
           THEN /\ wk' = [wk EXCEPT ![w] = [@ EXCEPT !.st = "write",
                              !.processed = r.processed, !.modified = r.modified]]
                /\ UNCHANGED slots
           ELSE done(ProcessingResult(r.modified, had_changes, None))
    /\ UNCHANGED <<callVars, contentVars, fs, fs0, writable, files, dry_run, threads, claimed,
                   writes, file_results, summary, raced, fault, pc>>

\* what a path may hold after std::fs::write failed: the old file when the
\* open failed, a proper prefix of the new content when the file was
\* truncated and write_all failed on the way
WriteFailureOutcomes(old, content) ==
    {old} \cup {File(SubSeq(content, 1, k)) : k \in 0..(Len(content) - 1)}

\* the write-back (fs.write) and the result that follows it
WriteBack(w) ==
    /\ pc = "running"
    /\ wk[w].st = "write"
    /\ LET i == wk[w].idx
           path == files[i]
           had_changes == wk[w].modified # <<>>
       IN  /\ writes' = Append(writes, [path |-> path, worker |-> w,
                                        content |-> wk[w].processed])
           /\ IF writable[path]
              THEN /\ fs' = [fs EXCEPT ![path] = File(wk[w].processed)]
                   /\ slots' = [slots EXCEPT ![i] = MapResult(path,
                          Ok(ProcessingResult(wk[w].modified, had_changes, None)))]
              ELSE /\ \E left \in WriteFailureOutcomes(fs[path], wk[w].processed) :
                          fs' = [fs EXCEPT ![path] = left]
                   /\ slots' = [slots EXCEPT ![i] = MapResult(path,
                          Ok(WriteFailureResult(wk[w].modified, had_changes)))]
    /\ wk' = [wk EXCEPT ![w] = Idle]
    /\ UNCHANGED <<callVars, contentVars, fs0, writable, files, dry_run, threads, claimed,
                   file_results, summary, raced, fault, pc>>

\* every closure of the parallel map has returned its pair
AllMapped == \A i \in 1..Len(files) : slots[i] # <<>>

\* collect() once every file has its pair, then aggregate_results
Finish ==
    /\ pc = "running"
    /\ AllMapped
    /\ file_results' = slots
    /\ summary' = <<aggregate_results([i \in 1..Len(files) |-> slots[i][2]])>>
    /\ pc' = "done"
    /\ UNCHANGED <<callVars, contentVars, fs, fs0, writable, files, dry_run, threads, claimed,
                   wk, slots, writes, raced, fault>>

\* display_results: the number of results with changes and no error
display_results(results) ==
    Cardinality({i \in 1..Len(results) :
                    results[i][2].had_changes /\ results[i][2].error = None})

\* "let actual_files_modified = if dry_run { 0 } else { files_with_changes }"
actual_files_modified(dry, files_with_changes) ==
    IF dry THEN 0 ELSE files_with_changes

\* process_directory after the engine returned: the pair it returns
ProcessDirectoryReturn ==
    /\ pc = "done"
    /\ ret = <<>>
    /\ LET files_with_changes == display_results(file_results)
       IN  ret' = <<[files_with_changes |-> files_with_changes,
                    files_modified |->
                        actual_files_modified(dry_run, files_with_changes)]>>
    /\ UNCHANGED <<previous, run, tree, pool, arg, contentVars, engineVars>>

Next ==
    \/ \E w \in Workers, i \in 1..MaxFiles : StartFile(w, i)
    \/ \E w \in Workers : Transform(w)
    \/ \E w \in Workers : WriteBack(w)
    \/ Finish
    \/ ProcessDirectoryReturn

Spec == Init /\ [][Next]_vars

(***************************************************************************)
(* The same run over MemFs.  MemFs keeps its map in a RefCell and is       *)
(* declared Sync by hand, so calls of two threads that overlap race on the *)
(* RefCell: borrow() panics when it sees a borrow_mut of another thread,    *)
(* borrow_mut() when it sees any borrow of another thread, or either may   *)
(* miss it; once calls have overlapped the unsynchronised borrow flag may  *)
(* be left wrong, so a later call may panic too, and a read may return     *)
(* bytes that were never stored.  fs.write of MemFs always returns Ok.     *)
(***************************************************************************)
InCall(v) == wk[v].st \in {"reading", "writing"}

\* another thread is inside a MemFs call
Overlaps(w) == \E v \in Workers \ {w} : InCall(v)

\* the borrows of other threads that the call of thread w conflicts with:
\* a "reading" call (borrow) with writers, a "writing" call with all
Conflicts(w, call) ==
    \E v \in Workers \ {w} :
        wk[v].st = "writing" \/ (call = "writing" /\ wk[v].st = "reading")

\* what RefCell::borrow / borrow_mut can do when thread w enters a call
BorrowOutcomes(w, call) ==
    IF raced \/ Conflicts(w, call) THEN {"borrowed", "panic"} ELSE {"borrowed"}

\* bytes of a read that raced with a write
Torn == <<BadByte>>

ReadValues(path) ==
    IF raced THEN {fs[path].bytes, Torn} ELSE {fs[path].bytes}

\* a worker takes the next file; process_file enters MemFs::read (borrow)
MemReadBegin(w, i) ==
    /\ pc = "running"
    /\ wk[w].st = "idle"
    /\ i \in (1..Len(files)) \ claimed
    /\ claimed' = claimed \cup {i}
    /\ raced' = (raced \/ Overlaps(w))
    /\ \E outcome \in BorrowOutcomes(w, "reading") :
          IF outcome = "panic"
          THEN /\ fault' = fault \cup {i}
               /\ UNCHANGED wk
          ELSE /\ wk' = [wk EXCEPT ![w] = [Idle EXCEPT !.st = "reading", !.idx = i]]
               /\ UNCHANGED fault
    /\ UNCHANGED <<callVars, contentVars, fs, fs0, writable, files, dry_run, threads, slots,
                   writes, file_results, summary, pc>>

\* MemFs::read returns: get(path).cloned(), or the "File not found" error
MemReadEnd(w) ==
    /\ pc = "running"
    /\ wk[w].st = "reading"
    /\ LET i == wk[w].idx
       IN  IF ~fs[files[i]].exists
           THEN /\ slots' = [slots EXCEPT ![i] =
                        MapResult(files[i], Ok(ErrorResult(ReadError)))]
                /\ wk' = [wk EXCEPT ![w] = Idle]
           ELSE /\ \E bytes \in ReadValues(files[i]) :
                      wk' = [wk EXCEPT ![w] = [@ EXCEPT !.st = "read", !.content = bytes]]
                /\ UNCHANGED slots
    /\ UNCHANGED <<callVars, contentVars, fs, fs0, writable, files, dry_run, threads, claimed,
                   writes, file_results, summary, raced, fault, pc>>

\* process_file enters MemFs::write (borrow_mut)
MemWriteBegin(w) ==
    /\ pc = "running"
    /\ wk[w].st = "write"
    /\ raced' = (raced \/ Overlaps(w))
    /\ \E outcome \in BorrowOutcomes(w, "writing") :
          IF outcome = "panic"
          THEN /\ fault' = fault \cup {wk[w].idx}
               /\ wk' = [wk EXCEPT ![w] = Idle]
          ELSE /\ wk' = [wk EXCEPT ![w] = [@ EXCEPT !.st = "writing"]]
               /\ UNCHANGED fault
    /\ UNCHANGED <<callVars, contentVars, fs, fs0, writable, files, dry_run, threads, claimed,
                   slots, writes, file_results, summary, pc>>

\* MemFs::write returns after the insert; process_file returns its result
MemWriteEnd(w) ==
    /\ pc = "running"
    /\ wk[w].st = "writing"
    /\ LET i == wk[w].idx
           path == files[i]
       IN  /\ writes' = Append(writes, [path |-> path, worker |-> w,
                                        content |-> wk[w].processed])
           /\ fs' = [fs EXCEPT ![path] = File(wk[w].processed)]
           /\ slots' = [slots EXCEPT ![i] = MapResult(path,
                  Ok(ProcessingResult(wk[w].modified, wk[w].modified # <<>>, None)))]
    /\ wk' = [wk EXCEPT ![w] = Idle]
    /\ UNCHANGED <<callVars, contentVars, fs0, writable, files, dry_run, threads, claimed,
                   file_results, summary, raced, fault, pc>>

\* the parallel map has no catch for a panic: once the running closures have
\* returned, the panic of a closure resumes in process_files_with_results,
\* which unwinds without a result
Unwind ==
    /\ pc = "running"
    /\ fault # {}
    /\ \A w \in Workers : wk[w].st = "idle"
    /\ pc' = "panicked"
    /\ UNCHANGED <<callVars, contentVars, fs, fs0, writable, files, dry_run, threads, claimed,
                   wk, slots, writes, file_results, summary, raced, fault>>

InitMem ==
    /\ Init
    /\ \A p \in Paths : writable[p]

NextMem ==
    \/ \E w \in Workers, i \in 1..MaxFiles : MemReadBegin(w, i)
    \/ \E w \in Workers : MemReadEnd(w)
    \/ \E w \in Workers : Transform(w)
    \/ \E w \in Workers : MemWriteBegin(w)
    \/ \E w \in Workers : MemWriteEnd(w)
    \/ Finish
    \/ Unwind

SpecMem == InitMem /\ [][NextMem]_vars

(***************************************************************************)
(* process_content on every text up to MaxLen, applied twice               *)
(***************************************************************************)
Texts == UNION {[1..n -> TextChars] : n \in 0..MaxLen}

NoRun ==
    /\ fs = <<>>
    /\ fs0 = <<>>
    /\ writable = <<>>
    /\ files = <<>>
    /\ dry_run = FALSE
    /\ threads = 1
    /\ claimed = {}
    /\ wk = <<>>
    /\ slots = <<>>
    /\ writes = <<>>
    /\ file_results = <<>>
    /\ summary = <<>>
    /\ raced = FALSE
    /\ fault = {}
    /\ pc = "off"

InitContent ==
    /\ text \in Texts
    /\ pass1 = <<>>
    /\ pass2 = <<>>
    /\ stage = "input"
    /\ NoRun
    /\ NoCall

FirstPass ==
    /\ stage = "input"
    /\ pass1' = <<process_content(text)>>
    /\ stage' = "once"
    /\ UNCHANGED <<text, pass2, engineVars, callVars>>

SecondPass ==
    /\ stage = "once"
    /\ pass2' = <<process_content(pass1[1].processed)>>
    /\ stage' = "twice"
    /\ UNCHANGED <<text, pass1, engineVars, callVars>>

NextContent == FirstPass \/ SecondPass

SpecContent == InitContent /\ [][NextContent]_vars

(***************************************************************************)
(* Properties of process_content (checked under SpecContent)               *)
(***************************************************************************)
\* the cleaned text of the first call
Cleaned == pass1[1].processed

CountByte(s, c) == Cardinality({i \in 1..Len(s) : s[i] = c})

\* index at which the last line of s starts: just after its last LF
LastLineStart(s) ==
    IF \E i \in 1..Len(s) : s[i] = LF
    THEN 1 + CHOOSE i \in 1..Len(s) : s[i] = LF /\ \A j \in (i + 1)..Len(s) : s[j] # LF
    ELSE 1

\* s ends in a line that has no terminator and holds only whitespace
UnterminatedBlankLast(s) ==
    /\ s # <<>>
    /\ Last(s) # LF
    /\ \A i \in LastLineStart(s)..Len(s) : s[i] \in Whitespace

HasTrailingWhitespace(line) == line # <<>> /\ Last(line) \in Whitespace

IsPrefix(p, l) == Len(p) <= Len(l) /\ SubSeq(l, 1, Len(p)) = p

\* C5 as stated: the cleaned text ends with a newline iff the input does
C5_TrailingNewlineIff ==
    stage # "input" => (EndsWith(Cleaned, LF) <=> EndsWith(text, LF))

\* C5 as amended: process_content neither adds nor removes a newline, and the
\* cleaned text ends with a newline iff the input does or the input's last
\* line is unterminated, holds only whitespace and follows a newline
C5_TrailingNewline ==
    stage # "input" =>
        /\ CountByte(Cleaned, LF) = CountByte(text, LF)
        /\ EndsWith(Cleaned, LF) <=>
              \/ EndsWith(text, LF)
              \/ UnterminatedBlankLast(text) /\ LastLineStart(text) > 1

C5_Witness ==
    /\ stage = "once"
    /\ text = <<LetterA, LF, SP, SP>>
    /\ Cleaned = <<LetterA, LF>>

\* the terminator of every line of s: "CRLF", "LF", or "none" for an
\* unterminated last line
Terminators(s) ==
    LET pieces == SplitInclusive(s)
    IN  [i \in 1..Len(pieces) |->
            IF ~EndsWith(pieces[i], LF) THEN "none"
            ELSE IF EndsWith(Front(pieces[i]), CR) THEN "CRLF" ELSE "LF"]

\* C6: every terminated line of the input keeps its terminator, CRLF or LF,
\* in the cleaned text
C6_LineEndingsPreserved ==
    stage # "input" =>
        \A i \in 1..Len(Terminators(text)) :
            (Terminators(text)[i] # "none" /\ i <= Len(Terminators(Cleaned)))
                => Terminators(Cleaned)[i] = Terminators(text)[i]

\* C7 as stated: the cleaned text has as many lines as the input
C7_LineCountEqual ==
    stage # "input" => Len(Lines(Cleaned)) = Len(Lines(text))

\* C7 as amended: the cleaned text has as many lines as the input, less one
\* when the input's last line is unterminated and holds only whitespace
C7_LineCount ==
    stage # "input" =>
        Len(Lines(Cleaned)) =
            Len(Lines(text)) - (IF UnterminatedBlankLast(text) THEN 1 ELSE 0)

C7_Witness ==
    /\ stage = "once"
    /\ text = <<LetterA, LF, SP>>
    /\ Len(Lines(text)) = 2
    /\ Len(Lines(Cleaned)) = 1

\* C8: line i of the cleaned text is a prefix of input line i, ends in no
\* whitespace, and what it lacks of input line i is whitespace only; an input
\* line beyond the cleaned text's last line is whitespace only
C8_LinesTrimmed ==
    stage # "input" =>
        LET inl == Lines(text)
            outl == Lines(Cleaned)
        IN  /\ Len(outl) <= Len(inl)
            /\ \A i \in 1..Len(inl) :
                  LET o == IF i <= Len(outl) THEN outl[i] ELSE <<>>
                  IN  /\ IsPrefix(o, inl[i])
                      /\ ~HasTrailingWhitespace(o)
                      /\ \A j \in (Len(o) + 1)..Len(inl[i]) : inl[i][j] \in Whitespace

C8_Witness ==
    /\ stage = "once"
    /\ text = <<LetterA, SP, LF, LetterA, TAB, LF>>
    /\ Cleaned = <<LetterA, LF, LetterA, LF>>
    /\ pass1[1].modified = <<1, 2>>

\* C9: the modified-line list is strictly ascending, 1-based, and holds i
\* exactly when input line i ends in whitespace
C9_ModifiedLines ==
    stage # "input" =>
        LET inl == Lines(text)
            m == pass1[1].modified
        IN  /\ \A j \in 1..Len(m) : m[j] \in 1..Len(inl)
            /\ \A j \in 1..(Len(m) - 1) : m[j] < m[j + 1]
            /\ \A i \in 1..Len(inl) :
                  (\E j \in 1..Len(m) : m[j] = i) <=> HasTrailingWhitespace(inl[i])
            /\ (m = <<>>) <=> (\A i \in 1..Len(inl) : ~HasTrailingWhitespace(inl[i]))

C9_Witness ==
    /\ stage = "once"
    /\ text = <<LetterA, LF, SP, LF>>
    /\ pass1[1].modified = <<2>>

\* C10: process_content on an already cleaned text returns it unchanged, with
\* no modified line and no byte saved
C10_Idempotent ==
    stage = "twice" =>
        /\ pass2[1].processed = Cleaned
        /\ pass2[1].modified = <<>>
        /\ pass2[1].saved = 0

C10_Witness ==
    /\ stage = "twice"
    /\ pass1[1].modified # <<>>
    /\ pass1[1].saved > 0
    /\ pass2[1].processed = Cleaned

(***************************************************************************)
(* Properties of a run (checked under Spec; C4 under SpecMem)              *)
(***************************************************************************)
ResultOf(i) == file_results[i][2]

\* C1: with dry_run no fs.write is issued and every file keeps its bytes,
\* at every point of the run and whatever the outcome of each file
C1_DryRunWritesNothing ==
    (pc \in {"running", "done"} /\ dry_run) => (writes = <<>> /\ fs = fs0)

C1_Witness ==
    /\ pc = "done"
    /\ dry_run
    /\ Len(files) = 2
    /\ ResultOf(1).had_changes /\ ResultOf(1).error = None
    /\ ResultOf(2).error # None
    /\ fs = fs0

\* C2: the run gets to its end (while it runs, a file without its pair is
\* either still to be taken or in the hands of exactly one worker, so some
\* step is always possible), and the list it returns holds, for every input
\* path, exactly one pair
C2_OneEntryPerPath ==
    /\ pc = "running" =>
          \A i \in 1..Len(files) :
              slots[i] = <<>> =>
                  \/ i \notin claimed
                  \/ Cardinality({w \in Workers :
                          wk[w].st # "idle" /\ wk[w].idx = i}) = 1
    /\ pc = "done" =>
          /\ Len(file_results) = Len(files)
          /\ \A i \in 1..Len(file_results) :
                /\ file_results[i] # <<>>
                /\ \E j \in 1..Len(files) : files[j] = file_results[i][1]
          /\ \A j \in 1..Len(files) :
                Cardinality({i \in 1..Len(file_results) :
                    file_results[i] # <<>> /\ file_results[i][1] = files[j]}) = 1

C2_Witness ==
    /\ pc = "done"
    /\ threads = 2
    /\ Len(file_results) = 2
    /\ file_results[1][1] # file_results[2][1]
    /\ Len(writes) = 2
    /\ writes[1].worker # writes[2].worker
    /\ writes[1].path = files[2]

\* the three classes of the partition law, counted on the returned list
ErrorClass == {i \in 1..Len(file_results) : ResultOf(i).error # None}

ModifiedClass ==
    {i \in 1..Len(file_results) : ResultOf(i).error = None /\ ResultOf(i).had_changes}

UnchangedClass ==
    {i \in 1..Len(file_results) : ResultOf(i).error = None /\ ~ResultOf(i).had_changes}

\* C3: the summary counts every result once: files_processed is N, the error
\* count and the modified count are those of the two classes, and with the
\* unchanged results they add up to N
C3_PartitionLaw ==
    pc = "done" =>
        /\ summary[1].files_processed = Len(files)
        /\ summary[1].files_with_errors = Cardinality(ErrorClass)
        /\ summary[1].files_modified = Cardinality(ModifiedClass)
        /\ summary[1].files_with_errors + summary[1].files_modified
              + Cardinality(UnchangedClass) = Len(files)

C3_Witness ==
    /\ pc = "done"
    /\ Len(files) = 2
    /\ ResultOf(1).error = WriteError /\ ResultOf(1).had_changes
    /\ ResultOf(2).error = None /\ ResultOf(2).had_changes
    /\ summary[1].files_with_errors = 1
    /\ summary[1].files_modified = 1

\* C4: a panic inside process_file for one file never aborts the run, and at
\* the end that file has the synthesized "Processing failed" result
C4_FaultIsolated ==
    /\ pc # "panicked"
    /\ pc = "done" =>
          \A i \in fault :
              ResultOf(i) = ProcessingResult(<<>>, FALSE, FaultError)

(***************************************************************************)
(* process_file's results                                                  *)
(***************************************************************************)
\* the indices whose (path, result) pair the map has produced
Filled == {i \in 1..Len(slots) : slots[i] # <<>>}

PathAt(i) == slots[i][1]

ResultAt(i) == slots[i][2]

\* the fs.write calls issued for a path
WritesTo(path) == {k \in 1..Len(writes) : writes[k].path = path}

\* C11: every result with an error has had_changes = FALSE, the result of a
\* failed write-back included
C11_ErrorMeansNoChanges ==
    \A i \in Filled : ResultAt(i).error # None => ~ResultAt(i).had_changes

\* C11: had_changes is "lines_modified is not empty" in every result; a
\* result with an error has had_changes = FALSE unless the error is the
\* write failure, whose result has had_changes = TRUE
C11_ErrorAndChanges ==
    \A i \in Filled :
        /\ ResultAt(i).had_changes <=> (ResultAt(i).lines_modified # <<>>)
        /\ ResultAt(i).error \notin {None, WriteError} => ~ResultAt(i).had_changes
        /\ ResultAt(i).error = WriteError => ResultAt(i).had_changes

C11_Witness ==
    \E i, j \in Filled :
        /\ ResultAt(i).error = WriteError /\ ResultAt(i).had_changes
        /\ ResultAt(j).error = BinaryError /\ ~ResultAt(j).had_changes

\* C12: when the write-back fails process_file returns a result with the
\* write error and all the modified lines, and the file holds what it held
\* before the call
C12_WriteFailureKeepsFile ==
    \A i \in Filled :
        ResultAt(i).error = WriteError =>
            /\ ~dry_run
            /\ fs0[PathAt(i)].exists
            /\ ResultAt(i).lines_modified
                  = process_content(fs0[PathAt(i)].bytes).modified
            /\ ResultAt(i).lines_modified # <<>>
            /\ fs[PathAt(i)] = fs0[PathAt(i)]

\* C12: when the write-back fails process_file returns a result with the
\* write error and all the modified lines; the file holds what it held
\* before the call or, truncated by the failed write, a proper prefix of
\* the cleaned text. Every changed file that cannot be written ends so.
C12_WriteFailure ==
    /\ \A i \in Filled :
          ResultAt(i).error = WriteError =>
              LET before == fs0[PathAt(i)]
                  r == process_content(before.bytes)
              IN  /\ ~dry_run
                  /\ before.exists
                  /\ ResultAt(i).lines_modified = r.modified
                  /\ ResultAt(i).lines_modified # <<>>
                  /\ \/ fs[PathAt(i)] = before
                     \/ /\ fs[PathAt(i)].exists
                        /\ IsPrefix(fs[PathAt(i)].bytes, r.processed)
                        /\ fs[PathAt(i)].bytes # r.processed
    /\ \A i \in Filled :
          (/\ ~dry_run
           /\ ~writable[PathAt(i)]
           /\ fs0[PathAt(i)] = File(Dirty))
              => ResultAt(i).error = WriteError

C12_Witness ==
    \E i \in Filled :
        /\ ResultAt(i).error = WriteError
        /\ ResultAt(i).lines_modified = <<1>>
        /\ fs[PathAt(i)] = fs0[PathAt(i)]

\* C13: process_file always returns a result. A file that cannot be read,
\* holds a NUL byte or is not UTF-8 gets a result with that error, no
\* modified lines and had_changes = FALSE, and fs.write is never called on it
C13_EarlyErrors ==
    \A i \in Filled :
        LET before == fs0[PathAt(i)]
            binary == \E k \in 1..Len(before.bytes) : before.bytes[k] = NUL
            invalid == \E k \in 1..Len(before.bytes) : before.bytes[k] = BadByte
            expected == IF ~before.exists THEN ReadError
                        ELSE IF binary THEN BinaryError
                        ELSE IF invalid THEN Utf8Error
                        ELSE None
        IN  /\ ResultAt(i).error # FaultError
            /\ expected # None =>
                  /\ ResultAt(i).error = expected
                  /\ ResultAt(i).lines_modified = <<>>
                  /\ ~ResultAt(i).had_changes
                  /\ WritesTo(PathAt(i)) = {}
                  /\ fs[PathAt(i)] = before
            /\ ResultAt(i).error \in {ReadError, BinaryError, Utf8Error}
                  => ResultAt(i).error = expected

C13_Witness ==
    /\ pc = "done"
    /\ ~dry_run
    /\ \E i, j \in Filled :
          /\ ResultAt(i) = ErrorResult(ReadError)
          /\ ResultAt(j) = ErrorResult(Utf8Error)

(***************************************************************************)
(* is_binary_content on every configuration and content of the bounds      *)
(***************************************************************************)
\* the binary_detection settings: the flag and a sample size
BinaryConfigs ==
    [check_null_bytes : BOOLEAN, sample_size : 0..MaxSample]

\* file contents with and without NUL bytes
ByteStrings == UNION {[1..n -> {NUL, LetterA}] : n \in 0..MaxLen}

\* what process_file does with the bytes it read, up to the decoding
classify(config, content) ==
    IF is_binary_content(config, content) THEN BinaryError
    ELSE IF ~from_utf8_ok(content) THEN Utf8Error
    ELSE None

InitBinary ==
    /\ arg \in [config : BinaryConfigs, content : ByteStrings]
    /\ ret = <<>>
    /\ previous = <<>>
    /\ tree = <<>>
    /\ pool = <<>>
    /\ run = <<>>
    /\ NoContent
    /\ NoRun

CheckBinary ==
    /\ arg # <<>>
    /\ ret = <<>>
    /\ ret' = <<[binary |-> is_binary_content(arg.config, arg.content),
                 error |-> classify(arg.config, arg.content)]>>
    /\ UNCHANGED <<previous, run, tree, pool, arg, contentVars, engineVars>>

NextBinary == CheckBinary

SpecBinary == InitBinary /\ [][NextBinary]_vars

\* C14: the content is binary exactly when check_null_bytes is set and a NUL
\* byte lies at a 0-based index below min(sample_size, length); so never when
\* the flag is off, the sample size is 0 or the content is empty, and content
\* whose NUL bytes all lie beyond the sample goes on to be handled as text
C14_BinaryWindow ==
    ret # <<>> =>
        LET config == arg.config
            content == arg.content
            window == {k \in 0..(Len(content) - 1) :
                          k < config.sample_size /\ k < Len(content)}
            expected == config.check_null_bytes
                            /\ \E k \in window : content[k + 1] = NUL
        IN  /\ ret[1].binary <=> expected
            /\ ~config.check_null_bytes => ~ret[1].binary
            /\ config.sample_size = 0 => ~ret[1].binary
            /\ content = <<>> => ~ret[1].binary
            /\ ret[1].error = BinaryError <=> expected
            /\ ~expected => ret[1].error = None

C14_Witness ==
    /\ ret # <<>>
    /\ arg.config.check_null_bytes
    /\ arg.config.sample_size = 2
    /\ arg.content = <<LetterA, LetterA, NUL>>
    /\ ~ret[1].binary
    /\ ret[1].error = None

(***************************************************************************)
(* glob::Pattern: patterns and strings are sequences of characters         *)
(***************************************************************************)
Separator == "/"

\* the tokens of a compiled pattern; any other token is a literal character
AnyChar == "?"

AnySequence == "*"

AnyRecursiveSequence == "**"

RECURSIVE StarRun(_, _)
\* the number of consecutive '*' from index i on
StarRun(chars, i) ==
    IF i <= Len(chars) /\ chars[i] = "*" THEN 1 + StarRun(chars, i + 1) ELSE 0

PatternError == [ok |-> FALSE, tokens |-> <<>>]

\* consecutive recursive wildcards collapse into one
PushRecursive(tokens) ==
    IF Len(tokens) > 1 /\ tokens[Len(tokens)] = AnyRecursiveSequence
    THEN tokens
    ELSE Append(tokens, AnyRecursiveSequence)

RECURSIVE PatternNewFrom(_, _, _)
\* Pattern::new from index i: "***" is an error, "**" must be a whole path
\* component, and the separator after it is swallowed
PatternNewFrom(chars, i, tokens) ==
    IF i > Len(chars) THEN [ok |-> TRUE, tokens |-> tokens]
    ELSE IF chars[i] = "*"
    THEN LET count == StarRun(chars, i)
             j == i + count
         IN  IF count > 2 THEN PatternError
             ELSE IF count = 2
             THEN IF i = 1 \/ chars[i - 1] = Separator
                  THEN IF j <= Len(chars) /\ chars[j] = Separator
                       THEN PatternNewFrom(chars, j + 1, PushRecursive(tokens))
                       ELSE IF j > Len(chars)
                       THEN PatternNewFrom(chars, j, PushRecursive(tokens))
                       ELSE PatternError
                  ELSE PatternError
             ELSE PatternNewFrom(chars, j, Append(tokens, AnySequence))
    ELSE PatternNewFrom(chars, i + 1, Append(tokens, chars[i]))

PatternNew(pattern) == PatternNewFrom(pattern, 1, <<>>)

Match == "Match"

SubPatternDoesntMatch == "SubPatternDoesntMatch"

EntirePatternDoesntMatch == "EntirePatternDoesntMatch"

RECURSIVE matches_from(_, _, _, _)
RECURSIVE ScanSequence(_, _, _, _)
\* Pattern::matches_from under the default MatchOptions: token ti against
\* the rest of the string from index fi
matches_from(tokens, ti, file, fi) ==
    IF ti > Len(tokens)
    THEN IF fi > Len(file) THEN Match ELSE SubPatternDoesntMatch
    ELSE IF tokens[ti] \in {AnySequence, AnyRecursiveSequence}
    THEN LET empty == matches_from(tokens, ti + 1, file, fi)
         IN  IF empty # SubPatternDoesntMatch THEN empty
             ELSE ScanSequence(tokens, ti, file, fi)
    ELSE IF fi > Len(file) THEN EntirePatternDoesntMatch
    ELSE IF tokens[ti] = AnyChar \/ tokens[ti] = file[fi]
    THEN matches_from(tokens, ti + 1, file, fi + 1)
    ELSE SubPatternDoesntMatch

\* the loop of a wildcard: it takes one more character at a time, and the
\* recursive wildcard tries the rest of the pattern only after a separator
ScanSequence(tokens, ti, file, fi) ==
    IF fi > Len(file) THEN matches_from(tokens, ti + 1, file, fi)
    ELSE IF tokens[ti] = AnyRecursiveSequence /\ file[fi] # Separator
    THEN ScanSequence(tokens, ti, file, fi + 1)
    ELSE LET m == matches_from(tokens, ti + 1, file, fi + 1)
         IN  IF m # SubPatternDoesntMatch THEN m
             ELSE ScanSequence(tokens, ti, file, fi + 1)

\* "if let Ok(glob_pattern) = Pattern::new(pattern) && glob_pattern.matches(s)"
glob_matches(pattern, str) ==
    LET compiled == PatternNew(pattern)
    IN  compiled.ok /\ matches_from(compiled.tokens, 1, str, 1) = Match

(***************************************************************************)
(* FileWalker over a directory tree. A path is the sequence of its         *)
(* components under "/", a component a sequence of characters.             *)
(***************************************************************************)
NameB == <<"b">>

NameC == <<"c">>

NameW == <<"w">>

NameAX == <<"a", ".", "x">>

Names == {NameB, NameC, NameAX}

\* the directories collect_files is called on
Roots == {<<NameW>>, <<NameB>>, <<NameB, NameW>>}

\* the paths, relative to root, that may exist
Nodes == {<<NameB>>, <<NameAX>>, <<NameB, NameAX>>, <<NameB, NameC>>}

NoEntry == [kind |-> "none", len |-> 0, meta_ok |-> FALSE]

FileEntry(len) == [kind |-> "file", len |-> len, meta_ok |-> TRUE]

\* what a path can be: nothing, a directory, a symlink, a regular file of
\* some size, or a file whose metadata cannot be read
Entries ==
    {NoEntry,
     [kind |-> "dir", len |-> 0, meta_ok |-> TRUE],
     [kind |-> "symlink", len |-> 0, meta_ok |-> TRUE],
     [kind |-> "file", len |-> 0, meta_ok |-> FALSE]}
    \cup {FileEntry(len) : len \in {0, MaxFileSize, MaxFileSize + 1}}

\* the trees: an entry exists only inside a directory
Trees ==
    {t \in [Nodes -> Entries] :
        \A n \in Nodes :
            (Len(n) > 1 /\ t[n].kind # "none") => t[Front(n)].kind = "dir"}

RECURSIVE PathStr(_)
\* Path::to_string_lossy
PathStr(path) ==
    IF path = <<>> THEN <<Separator>>
    ELSE IF Len(path) = 1 THEN <<Separator>> \o path[1]
    ELSE PathStr(Front(path)) \o <<Separator>> \o Last(path)

\* ancestors that stop at the parent directory
AncestorsParentOnly(path) == {path} \cup {Front(path) : k \in 1..Min(1, Len(path))}

\* Path::ancestors: the path itself, then each parent up to "/"
Ancestors(path) == {SubSeq(path, 1, k) : k \in 0..Len(path)}

\* Path::file_name as an option: "/" has none
file_name(path) == IF path = <<>> THEN <<>> ELSE <<Last(path)>>

\* pattern.ends_with("/**")
EndsWithRecursive(pattern) ==
    /\ Len(pattern) >= 3
    /\ SubSeq(pattern, Len(pattern) - 2, Len(pattern)) = <<"/", "*", "*">>

\* the Config fields the walker can read
WalkerConfigs ==
    [file_extensions : {<<>>, <<<<"x">>>>},
     exclude_paths : {<<>>,
                      <<<<"b", "/", "*", "*">>>>,
                      <<<<"*", "/", "b">>>>,
                      <<<<"b", "*", "*">>, <<"*", "/", "a", ".", "x">>>>},
     exclude_files : {<<>>, <<<<"c">>>>},
     exclude_binary_extensions : {<<>>, <<<<"*", ".", "x">>>>},
     max_file_size : {MaxFileSize}]

is_excluded_path(config, path) ==
    \E k \in 1..Len(config.exclude_paths) :
        LET pattern == config.exclude_paths[k]
        IN  \/ glob_matches(pattern, PathStr(path))
            \/ \E ancestor \in Ancestors(path) :
                  \/ glob_matches(pattern, PathStr(ancestor))
                  \/ /\ EndsWithRecursive(pattern)
                     /\ file_name(ancestor) # <<>>
                     /\ glob_matches(SubSeq(pattern, 1, Len(pattern) - 3),
                                     file_name(ancestor)[1])

is_excluded_file(config, path) ==
    /\ file_name(path) # <<>>
    /\ \E k \in 1..Len(config.exclude_files) :
          glob_matches(config.exclude_files[k], file_name(path)[1])

has_binary_extension(config, path) ==
    /\ file_name(path) # <<>>
    /\ \E k \in 1..Len(config.exclude_binary_extensions) :
          glob_matches(config.exclude_binary_extensions[k], file_name(path)[1])

TooLarge(len, max_file_size) == len > max_file_size

\* entry is what the disk holds at path (fs.metadata reads it)
should_process_file(config, path, entry) ==
    IF is_excluded_path(config, path) THEN FALSE
    ELSE IF is_excluded_file(config, path) THEN FALSE
    ELSE IF has_binary_extension(config, path) THEN FALSE
    ELSE IF ~entry.meta_ok THEN FALSE
    ELSE ~TooLarge(entry.len, config.max_file_size)

\* a walk that never stops at depth 1
MaxDepthUnlimited(recursive, depth) == TRUE

\* WalkDir::new(root) or WalkDir::new(root).max_depth(1)
MaxDepth(recursive, depth) == recursive \/ depth <= 1

\* the order in which a directory lists its entries
Rankings ==
    {r \in [Names -> 1..Cardinality(Names)] :
        \A x, y \in Names : x # y => r[x] # r[y]}

\* x comes before y in a depth-first walk: a directory before its contents,
\* siblings in listing order
Before(x, y, rank) ==
    \/ Len(x) < Len(y) /\ SubSeq(y, 1, Len(x)) = x
    \/ \E i \in 1..Len(x) :
          /\ i <= Len(y)
          /\ SubSeq(x, 1, i - 1) = SubSeq(y, 1, i - 1)
          /\ x[i] # y[i]
          /\ rank[x[i]] < rank[y[i]]

RECURSIVE InWalkOrder(_, _)
InWalkOrder(S, rank) ==
    IF S = {} THEN <<>>
    ELSE LET first == CHOOSE x \in S : \A y \in S \ {x} : Before(x, y, rank)
         IN  <<first>> \o InWalkOrder(S \ {first}, rank)

\* the entries WalkDir yields, relative to root: root itself and what exists
\* under it down to the depth limit
WalkEntries(t, recursive) ==
    {<<>>} \cup {n \in Nodes : t[n].kind # "none" /\ MaxDepth(recursive, Len(n))}

EntryAt(t, rel) ==
    IF rel = <<>> THEN [kind |-> "dir", len |-> 0, meta_ok |-> TRUE] ELSE t[rel]

collect_files(config, t, root, recursive, rank) ==
    LET walk == InWalkOrder(WalkEntries(t, recursive), rank)
        keeps(rel) ==
            /\ EntryAt(t, rel).kind # "dir"
            /\ EntryAt(t, rel).kind # "symlink"
            /\ should_process_file(config, root \o rel, EntryAt(t, rel))
        kept == SelectSeq(walk, keeps)
    IN  [i \in 1..Len(kept) |-> root \o kept[i]]

InitWalk ==
    /\ tree \in Trees
    /\ arg \in [config : WalkerConfigs, root : Roots, recursive : BOOLEAN]
    /\ ret = <<>>
    /\ previous = <<>>
    /\ pool = <<>>
    /\ run = <<>>
    /\ NoContent
    /\ NoRun

CollectFiles ==
    /\ tree # <<>>
    /\ ret = <<>>
    /\ \E rank \in Rankings :
          ret' = <<collect_files(arg.config, tree, arg.root, arg.recursive, rank)>>
    /\ UNCHANGED <<previous, run, tree, pool, arg, contentVars, engineVars>>

NextWalk == CollectFiles

SpecWalk == InitWalk /\ [][NextWalk]_vars

\* the paths collect_files returned
Returned == IF ret = <<>> THEN {} ELSE {ret[1][i] : i \in 1..Len(ret[1])}

\* a returned path relative to root
RelOf(path) == SubSeq(path, Len(arg.root) + 1, Len(path))

\* the nodes the walk can reach: below a chain of directories and, when not
\* recursive, directly in root
Reachable(n) ==
    /\ tree[n].kind # "none"
    /\ \A k \in 1..(Len(n) - 1) : tree[SubSeq(n, 1, k)].kind = "dir"
    /\ arg.recursive \/ Len(n) = 1

AnyMatch(patterns, str) ==
    \E k \in 1..Len(patterns) : glob_matches(patterns[k], str)

\* the path string, or that of a directory above it, matches a pattern, or a
\* directory above it has the name of a "name/**" pattern
UnderExcludedPath(path) ==
    \/ \E q \in Ancestors(path) : AnyMatch(arg.config.exclude_paths, PathStr(q))
    \/ \E q \in Ancestors(path) \ {path, <<>>} :
          \E k \in 1..Len(arg.config.exclude_paths) :
              LET pattern == arg.config.exclude_paths[k]
              IN  /\ EndsWithRecursive(pattern)
                  /\ glob_matches(SubSeq(pattern, 1, Len(pattern) - 3), Last(q))

\* Path::extension of a file name as an option: what follows the last dot,
\* unless the name has none or only starts with one
Extension(name) ==
    LET dots == {i \in 2..Len(name) : name[i] = "."}
    IN  IF dots = {} THEN <<>>
        ELSE <<SubSeq(name, (CHOOSE i \in dots : \A j \in dots : j <= i) + 1,
                      Len(name))>>

\* C15: no returned path lies under an excluded path, has an excluded file
\* name or binary extension, is larger than max_file_size or has unreadable
\* metadata; a file of exactly max_file_size that passes the three pattern
\* tests is returned
C15_ExclusionComplete ==
    ret # <<>> =>
        /\ \A path \in Returned :
              /\ ~UnderExcludedPath(path)
              /\ ~AnyMatch(arg.config.exclude_files, Last(path))
              /\ ~AnyMatch(arg.config.exclude_binary_extensions, Last(path))
              /\ tree[RelOf(path)].len <= arg.config.max_file_size
              /\ tree[RelOf(path)].meta_ok
        /\ \A n \in Nodes :
              (/\ Reachable(n)
               /\ tree[n] = FileEntry(arg.config.max_file_size)
               /\ ~UnderExcludedPath(arg.root \o n)
               /\ ~AnyMatch(arg.config.exclude_files, Last(n))
               /\ ~AnyMatch(arg.config.exclude_binary_extensions, Last(n)))
                  => (arg.root \o n) \in Returned

\* C16: with a non-empty file_extensions only files whose extension is in
\* the list are returned
C16_ExtensionFilter ==
    (ret # <<>> /\ arg.config.file_extensions # <<>>) =>
        \A path \in Returned :
            \E k \in 1..Len(arg.config.file_extensions) :
                Extension(Last(path)) = <<arg.config.file_extensions[k]>>

C18_DryRunCount ==
    (pc = "done" /\ dry_run /\ ret # <<>>) =>
        /\ summary[1].files_modified = Cardinality(ModifiedClass)
        /\ ret[1].files_modified = Cardinality(ModifiedClass)

(***************************************************************************)
(* The global thread pool: ParallelEngine::new and run_application's       *)
(* choice of the thread count. arg lists the calls made, ret their results.*)
(***************************************************************************)
\* the size rayon gives a pool built with num_threads(n): 0 means automatic
PoolSize(n) == IF n = 0 THEN NumCpus ELSE n

\* a build_global that installs a new pool over an existing one
build_global_replacing(current, n, spawned) ==
    IF ~spawned THEN [ok |-> FALSE, pool |-> current]
    ELSE [ok |-> TRUE, pool |-> <<PoolSize(n)>>]

\* ThreadPoolBuilder::num_threads(n).build_global(): an error when the
\* global pool exists already or its threads cannot be spawned
build_global(current, n, spawned) ==
    IF current # <<>> THEN [ok |-> FALSE, pool |-> current]
    ELSE IF ~spawned THEN [ok |-> FALSE, pool |-> current]
    ELSE [ok |-> TRUE, pool |-> <<PoolSize(n)>>]

\* ParallelEngine::new: the error of build_global is logged and dropped
ParallelEngine_new(current, num_threads, spawned) ==
    [result |-> "Ok", pool |-> build_global(current, num_threads, spawned).pool]

\* clap's value of cli.threads: the one given with -j, else the default
cli_threads(given) == IF given = <<>> THEN NumCpus ELSE given[1]

\* run_application: "if cli.threads != num_cpus::get() { cli.threads }
\* else { config.processing.threads }"
thread_count(given, config_threads) ==
    IF cli_threads(given) # NumCpus THEN cli_threads(given) ELSE config_threads

\* what -j may carry, if anything, and what processing.threads may hold
CliGiven == {<<>>} \cup {<<n>> : n \in 0..(NumCpus + 1)}

ConfigThreads == 1..(NumCpus + 1)

InitPool ==
    /\ pool = <<>>
    /\ run = <<>>
    /\ arg = <<>>
    /\ ret = <<>>
    /\ previous = <<>>
    /\ tree = <<>>
    /\ NoContent
    /\ NoRun

\* a direct construction of the engine, as the tests do
NewEngine(n, spawned) ==
    /\ Len(arg) < MaxCalls
    /\ LET r == ParallelEngine_new(pool, n, spawned)
       IN  /\ pool' = r.pool
           /\ ret' = Append(ret, r.result)
           /\ arg' = Append(arg, [caller |-> "test", given |-> <<>>,
                                  config_threads |-> n, num_threads |-> n,
                                  before |-> pool, after |-> r.pool])
    /\ UNCHANGED <<previous, run, tree, contentVars, engineVars>>

\* run_application up to the construction of the engine
RunApplication(given, config_threads, spawned) ==
    /\ Len(arg) < MaxCalls
    /\ LET n == thread_count(given, config_threads)
           r == ParallelEngine_new(pool, n, spawned)
       IN  /\ pool' = r.pool
           /\ ret' = Append(ret, r.result)
           /\ arg' = Append(arg, [caller |-> "main", given |-> given,
                                  config_threads |-> config_threads,
                                  num_threads |-> n, before |-> pool,
                                  after |-> r.pool])
    /\ UNCHANGED <<previous, run, tree, contentVars, engineVars>>

\* par_iter on a process that has no global pool yet: rayon builds the
\* default one
UseGlobalPool ==
    /\ pool = <<>>
    /\ arg # <<>>
    /\ pool' = <<PoolSize(0)>>
    /\ UNCHANGED <<previous, run, tree, arg, ret, contentVars, engineVars>>

NextPool ==
    \/ \E n \in 0..(NumCpus + 1), spawned \in BOOLEAN : NewEngine(n, spawned)
    \/ \E given \in CliGiven, config_threads \in ConfigThreads, spawned \in BOOLEAN :
          RunApplication(given, config_threads, spawned)
    \/ UseGlobalPool

SpecPool == InitPool /\ [][NextPool]_vars

\* C19: every ParallelEngine::new returns Ok, whatever the thread counts and
\* however many calls came before, and once the global pool exists no step
\* changes it or its size
C19_PoolInitTolerant ==
    /\ [](\A i \in 1..Len(ret) : ret[i] = "Ok")
    /\ [][pool # <<>> => pool' = pool]_vars

C19_Witness ==
    /\ Len(arg) = 2
    /\ arg[1].num_threads = 1 /\ arg[1].before = <<>>
    /\ arg[2].num_threads = 2 /\ arg[2].before = <<1>>
    /\ ret = <<"Ok", "Ok">>
    /\ pool = <<1>>

\* C20: the engine gets the -j value whenever one was given, also when it
\* equals the number of CPUs, and processing.threads otherwise; a pool first
\* built by that call has this size
C20_ExplicitCountUsed ==
    \A i \in 1..Len(arg) :
        arg[i].caller = "main" =>
            LET wanted == IF arg[i].given # <<>> THEN arg[i].given[1]
                          ELSE arg[i].config_threads
            IN  /\ arg[i].num_threads = wanted
                /\ (arg[i].before = <<>> /\ arg[i].after # <<>> /\ wanted >= 1)
                      => arg[i].after = <<wanted>>

(***************************************************************************)
(* run(): the loop over the target directories and what main returns       *)
(***************************************************************************)
\* a target that is a directory, by what process_directory finds in it: the
\* number of files with changes and of files with errors
DirTarget(changed, errors) ==
    [kind |-> "dir", changed |-> changed, errors |-> errors]

\* what a target path can be
Targets ==
    {[kind |-> "missing", changed |-> 0, errors |-> 0],
     [kind |-> "file", changed |-> 0, errors |-> 0]}
    \cup {DirTarget(changed, errors) : changed \in 0..1, errors \in 0..1}

TargetLists == UNION {[1..n -> Targets] : n \in 0..MaxTargets}

NotExist == "Directory does not exist:"

NotADirectory == "Not a directory:"

NoValidDirectories == "No valid directories found to process"

\* a loop that gives up at the first bad target
AfterBadTargetStop(i, n) == n + 1

\* "continue": the loop goes on with the next target
AfterBadTarget(i, n) == i + 1

\* process_directory on a directory: (files_with_changes, files_modified)
process_directory(target, dry) ==
    <<target.changed, actual_files_modified(dry, target.changed)>>

InitRun ==
    /\ arg \in [directories : TargetLists, dry_run : BOOLEAN]
    /\ run = [i |-> 1, processed_dirs |-> 0, total_files_with_changes |-> 0,
              total_files_modified |-> 0, reported |-> <<>>, processed |-> <<>>]
    /\ ret = <<>>
    /\ previous = <<>>
    /\ tree = <<>>
    /\ pool = <<>>
    /\ NoContent
    /\ NoRun

\* one iteration of "for target_dir in &runtime_config.directories"
VisitTarget ==
    /\ run # <<>>
    /\ ret = <<>>
    /\ run.i <= Len(arg.directories)
    /\ LET target == arg.directories[run.i]
           n == Len(arg.directories)
       IN  IF target.kind = "missing"
           THEN run' = [run EXCEPT !.i = AfterBadTarget(run.i, n),
                            !.reported = Append(@, <<NotExist, run.i>>)]
           ELSE IF target.kind # "dir"
           THEN run' = [run EXCEPT !.i = AfterBadTarget(run.i, n),
                            !.reported = Append(@, <<NotADirectory, run.i>>)]
           ELSE LET r == process_directory(target, arg.dry_run)
                IN  run' = [run EXCEPT !.i = @ + 1,
                                !.processed_dirs = @ + 1,
                                !.total_files_with_changes = @ + r[1],
                                !.total_files_modified = @ + r[2],
                                !.processed = Append(@, run.i)]
    /\ UNCHANGED <<previous, tree, pool, arg, ret, contentVars, engineVars>>

\* after the loop: run returns Ok(()), and so does main
RunReturn ==
    /\ run # <<>>
    /\ ret = <<>>
    /\ run.i > Len(arg.directories)
    /\ IF run.processed_dirs = 0
       THEN run' = [run EXCEPT !.reported = Append(@, <<NoValidDirectories, 0>>)]
       ELSE run' = run
    /\ ret' = <<"Ok">>
    /\ UNCHANGED <<previous, tree, pool, arg, contentVars, engineVars>>

NextRun == VisitTarget \/ RunReturn

SpecRun == InitRun /\ [][NextRun]_vars

\* the indices of the targets that are directories, in order
ValidTargets ==
    SelectSeq([k \in 1..Len(arg.directories) |-> k],
              LAMBDA k : arg.directories[k].kind = "dir")

\* C21: a target that is missing or not a directory is reported and skipped,
\* every valid target is processed, in order, and the run returns Ok; with no
\* valid target it says so and still returns Ok
C21_BadTargetsSkipped ==
    ret # <<>> =>
        /\ ret = <<"Ok">>
        /\ run.processed = ValidTargets
        /\ run.processed_dirs = Len(ValidTargets)
        /\ \A k \in 1..Len(arg.directories) :
              /\ arg.directories[k].kind = "missing"
                    => \E j \in 1..Len(run.reported) : run.reported[j] = <<NotExist, k>>
              /\ arg.directories[k].kind = "file"
                    => \E j \in 1..Len(run.reported) : run.reported[j] = <<NotADirectory, k>>
        /\ (ValidTargets = <<>>)
              <=> (\E j \in 1..Len(run.reported) :
                      run.reported[j] = <<NoValidDirectories, 0>>)

C21_Witness ==
    /\ ret = <<"Ok">>
    /\ Len(arg.directories) = 2
    /\ arg.directories[1].kind = "missing"
    /\ arg.directories[2] = DirTarget(1, 0)
    /\ run.processed = <<2>>
    /\ run.total_files_with_changes = 1

\* C22: the run ends with success when only files had errors, and with a
\* failure when some target is missing or not a directory
C22_ExitSignalsBadTarget ==
    ret # <<>> =>
        (ret = <<"Ok">> <=>
            \A k \in 1..Len(arg.directories) : arg.directories[k].kind = "dir")

(***************************************************************************)
(* format_line_numbers; strings are sequences of characters                *)
(***************************************************************************)
Digits == <<"0", "1", "2", "3", "4", "5", "6", "7", "8", "9">>

RECURSIVE to_string(_)
\* usize::to_string: the decimal digits, most significant first
to_string(n) ==
    IF n < 10 THEN <<Digits[n + 1]>>
    ELSE to_string(n \div 10) \o <<Digits[(n % 10) + 1]>>

\* a rendering that writes every run as a pair
RangeStringAlwaysPair(start, end) == to_string(start) \o <<"-">> \o to_string(end)

\* one run: start.to_string(), or format!("{}-{}", start, end)
RangeString(start, end) ==
    IF start = end THEN to_string(start)
    ELSE to_string(start) \o <<"-">> \o to_string(end)

RECURSIVE FormatLoop(_, _, _, _, _)
\* the loop over lines[1..] and the push of the last range
FormatLoop(lines, k, start, end, ranges) ==
    IF k > Len(lines) THEN Append(ranges, RangeString(start, end))
    ELSE IF lines[k] = end + 1
    THEN FormatLoop(lines, k + 1, start, lines[k], ranges)
    ELSE FormatLoop(lines, k + 1, lines[k], lines[k],
                    Append(ranges, RangeString(start, end)))

format_line_numbers(lines) ==
    IF lines = <<>> THEN <<>>
    ELSE <<" ", "(">>
            \o Join(FormatLoop(lines, 2, lines[1], lines[1], <<>>), <<",">>)
            \o <<")">>

\* the strictly ascending lists of line numbers
RECURSIVE Ascending(_)
Ascending(S) ==
    IF S = {} THEN <<>>
    ELSE LET least == CHOOSE x \in S : \A y \in S : x <= y
         IN  <<least>> \o Ascending(S \ {least})

LineLists == {Ascending(S) : S \in SUBSET (1..MaxLine)}

InitFormat ==
    /\ arg \in [lines : LineLists]
    /\ ret = <<>>
    /\ previous = <<>>
    /\ run = <<>>
    /\ tree = <<>>
    /\ pool = <<>>
    /\ NoContent
    /\ NoRun

FormatLineNumbers ==
    /\ arg # <<>>
    /\ ret = <<>>
    /\ ret' = <<format_line_numbers(arg.lines)>>
    /\ UNCHANGED <<previous, run, tree, pool, arg, contentVars, engineVars>>

NextFormat == FormatLineNumbers

SpecFormat == InitFormat /\ [][NextFormat]_vars

\* the numbers of the list, and the maximal runs of consecutive numbers as
\* <<first, last>> pairs in ascending order
LineSet == {arg.lines[k] : k \in 1..Len(arg.lines)}

MaximalRuns ==
    LET starts == {a \in LineSet : (a - 1) \notin LineSet}
        lastOf(a) == CHOOSE b \in LineSet :
                        /\ \A c \in a..b : c \in LineSet
                        /\ (b + 1) \notin LineSet
                        /\ b >= a
        ordered == Ascending(starts)
    IN  [k \in 1..Len(ordered) |-> <<ordered[k], lastOf(ordered[k])>>]

\* the decimal rendering of a number, digit by digit
Decimal(n) ==
    IF n < 10 THEN <<Digits[n + 1]>>
    ELSE <<Digits[(n \div 10) + 1], Digits[(n % 10) + 1]>>

\* the value of a decimal string
RECURSIVE ParseDecimal(_)
ParseDecimal(str) ==
    IF str = <<>> THEN 0
    ELSE 10 * ParseDecimal(Front(str))
            + (CHOOSE d \in 0..9 : Digits[d + 1] = Last(str))

RECURSIVE SplitOn(_, _)
\* the pieces of str between the occurrences of the character c
SplitOn(str, c) ==
    IF \A k \in 1..Len(str) : str[k] # c THEN <<str>>
    ELSE LET k == CHOOSE i \in 1..Len(str) :
                      str[i] = c /\ \A j \in 1..(i - 1) : str[j] # c
         IN  <<SubSeq(str, 1, k - 1)>> \o SplitOn(SubSeq(str, k + 1, Len(str)), c)

RECURSIVE ExpandPieces(_)
\* the numbers that a list of rendered runs "a" or "a-b" stands for
ExpandPieces(pieces) ==
    IF pieces = <<>> THEN <<>>
    ELSE LET ends == SplitOn(pieces[1], "-")
             a == ParseDecimal(ends[1])
             b == ParseDecimal(ends[Len(ends)])
         IN  [k \in 1..(b - a + 1) |-> a + k - 1] \o ExpandPieces(Tail(pieces))

\* the rendering the runs should have between the parentheses
RenderedRuns ==
    Join([k \in 1..Len(MaximalRuns) |->
             IF MaximalRuns[k][1] = MaximalRuns[k][2]
             THEN Decimal(MaximalRuns[k][1])
             ELSE Decimal(MaximalRuns[k][1]) \o <<"-">> \o Decimal(MaximalRuns[k][2])],
         <<",">>)

\* C23 as stated: the output is "(" runs ")" and expands to the input, and
\* the empty list gives the empty string
C23_FormatNoSpace ==
    ret # <<>> =>
        IF arg.lines = <<>> THEN ret[1] = <<>>
        ELSE /\ ret[1] = <<"(">> \o RenderedRuns \o <<")">>
             /\ ExpandPieces(SplitOn(SubSeq(ret[1], 2, Len(ret[1]) - 1), ","))
                   = arg.lines

\* C23: the output is a space, then "(" runs ")" with the maximal runs in
\* order, "a" for a single number and "a-b" for a longer run; the rendered
\* runs expand to the input, and the empty list gives the empty string
C23_Format ==
    ret # <<>> =>
        IF arg.lines = <<>> THEN ret[1] = <<>>
        ELSE /\ ret[1] = <<" ", "(">> \o RenderedRuns \o <<")">>
             /\ ExpandPieces(SplitOn(SubSeq(ret[1], 3, Len(ret[1]) - 1), ","))
                   = arg.lines

C23_Witness ==
    /\ arg = [lines |-> <<1, 2, 3, 5, 7, 8, 9>>]
    /\ ret = <<<<" ", "(", "1", "-", "3", ",", "5", ",", "7", "-", "9", ")">>>>

(***************************************************************************)
(* ProcessingSettings: deserialisation of processing.threads and           *)
(* processing.max-file-size                                                *)
(***************************************************************************)
\* 100 * 1024 * 1024
DefaultMaxFileSize == 104857600

\* serde_yaml::Value, as far as deserialize_threads_value tells values apart
YamlNumber(value, float) ==
    [kind |-> "Number", value |-> value, float |-> float, str |-> ""]

YamlString(str) == [kind |-> "String", value |-> 0, float |-> FALSE, str |-> str]

YamlOther(kind) == [kind |-> kind, value |-> 0, float |-> FALSE, str |-> ""]

YamlValues ==
    {YamlNumber(v, float) : v \in (0 - 2)..(NumCpus + 2), float \in BOOLEAN}
    \cup {YamlString(str) : str \in {"nproc", "auto", "4", ""}}
    \cup {YamlOther(kind) : kind \in {"Null", "Bool", "Sequence", "Mapping"}}

\* Number::as_u64 as an option: integers that are not negative
as_u64(n) == IF ~n.float /\ n.value >= 0 THEN <<n.value>> ELSE <<>>

ThreadsZero == "threads must be greater than 0"

ThreadsNotPositive == "threads must be a positive integer"

ThreadsInvalidString == "invalid thread value: expected a positive integer or 'nproc'"

ThreadsWrongType == "threads must be a positive integer or the string 'nproc'"

ThreadsOk(n) == [ok |-> TRUE, threads |-> n, error |-> ""]

ThreadsErr(error) == [ok |-> FALSE, threads |-> 0, error |-> error]

\* a validation without the test for 0
deserialize_threads_value_any(value) ==
    IF value.kind = "Number"
    THEN IF as_u64(value) # <<>> THEN ThreadsOk(as_u64(value)[1])
         ELSE ThreadsErr(ThreadsNotPositive)
    ELSE IF value.kind = "String"
    THEN IF value.str = "nproc" THEN ThreadsOk(NumCpus)
         ELSE ThreadsErr(ThreadsInvalidString)
    ELSE ThreadsErr(ThreadsWrongType)

deserialize_threads_value(value) ==
    IF value.kind = "Number"
    THEN IF as_u64(value) # <<>>
         THEN IF as_u64(value)[1] = 0 THEN ThreadsErr(ThreadsZero)
              ELSE ThreadsOk(as_u64(value)[1])
         ELSE ThreadsErr(ThreadsNotPositive)
    ELSE IF value.kind = "String"
    THEN IF value.str = "nproc" THEN ThreadsOk(NumCpus)
         ELSE ThreadsErr(ThreadsInvalidString)
    ELSE ThreadsErr(ThreadsWrongType)

\* visit_map on the keys of the "processing" mapping, each an option
visit_map(map) ==
    LET parsed == IF map.threads = <<>> THEN ThreadsOk(NumCpus)
                  ELSE deserialize_threads_value(map.threads[1])
        size == IF map.max_file_size = <<>> THEN DefaultMaxFileSize
                ELSE map.max_file_size[1]
    IN  IF ~parsed.ok THEN [ok |-> FALSE, max_file_size |-> 0, threads |-> 0,
                            error |-> parsed.error]
        ELSE [ok |-> TRUE, max_file_size |-> size,
              threads |-> parsed.threads, error |-> ""]

ProcessingMaps ==
    [threads : {<<>>} \cup {<<v>> : v \in YamlValues},
     max_file_size : {<<>>} \cup {<<n>> : n \in 0..(MaxFileSize + 1)}]

InitSettings ==
    /\ arg \in ProcessingMaps
    /\ ret = <<>>
    /\ previous = <<>>
    /\ run = <<>>
    /\ tree = <<>>
    /\ pool = <<>>
    /\ NoContent
    /\ NoRun

DeserializeSettings ==
    /\ arg # <<>>
    /\ ret = <<>>
    /\ ret' = <<visit_map(arg)>>
    /\ UNCHANGED <<previous, run, tree, pool, arg, contentVars, engineVars>>

NextSettings == DeserializeSettings

SpecSettings == InitSettings /\ [][NextSettings]_vars

\* C24: a positive integer n gives threads = n; "nproc" and an absent key
\* give the number of CPUs; 0, other strings, negative and non-integer
\* numbers and values of other types are rejected with an error message; so
\* every accepted configuration has threads >= 1; an absent max-file-size
\* gives 100 MiB
C24_ThreadsParsing ==
    ret # <<>> =>
        LET given == arg.threads
            accepted ==
                \/ given = <<>>
                \/ given[1].kind = "String" /\ given[1].str = "nproc"
                \/ given[1].kind = "Number" /\ ~given[1].float /\ given[1].value >= 1
        IN  /\ ret[1].ok <=> accepted
            /\ ret[1].ok =>
                  /\ ret[1].threads >= 1
                  /\ given = <<>> => ret[1].threads = NumCpus
                  /\ (given # <<>> /\ given[1].kind = "String")
                        => ret[1].threads = NumCpus
                  /\ (given # <<>> /\ given[1].kind = "Number")
                        => ret[1].threads = given[1].value
                  /\ arg.max_file_size = <<>> =>
                        ret[1].max_file_size = 100 * 1024 * 1024
                  /\ arg.max_file_size # <<>> =>
                        ret[1].max_file_size = arg.max_file_size[1]
            /\ ~ret[1].ok => ret[1].error # ""

C24_Witness ==
    /\ ret # <<>>
    /\ arg.threads = <<YamlString("nproc")>>
    /\ arg.max_file_size = <<>>
    /\ ret[1].ok
    /\ ret[1].threads = NumCpus
    /\ ret[1].max_file_size = DefaultMaxFileSize

\* C25: a file is excluded by exclude_paths iff a pattern matches its path
\* string or that of a directory above it, or a "name/**" pattern has the
\* name of a directory above it; the file's own name does not count for the
\* last test, and a pattern that does not compile matches nothing
C25_PathExclusionDecision ==
    ret # <<>> =>
        \A n \in Nodes :
            tree[n].kind = "file" =>
                (is_excluded_path(arg.config, arg.root \o n)
                    <=> UnderExcludedPath(arg.root \o n))

\* the components of root that carry the name of a "name/**" pattern
ExcludedRootNames ==
    {k \in 1..Len(arg.root) :
        \E j \in 1..Len(arg.config.exclude_paths) :
            LET pattern == arg.config.exclude_paths[j]
            IN  /\ EndsWithRecursive(pattern)
                /\ glob_matches(SubSeq(pattern, 1, Len(pattern) - 3), arg.root[k])}

\* C28: when root, or a directory above root, has the name of a "name/**"
\* pattern, collect_files returns nothing, whatever root holds
C28_RootUnderExcludedName ==
    (ret # <<>> /\ ExcludedRootNames # {}) => ret[1] = <<>>

C28_Witness ==
    /\ ret = <<<<>>>>
    /\ arg.root = <<NameB, NameW>>
    /\ arg.recursive
    /\ arg.config.exclude_paths = <<<<"b", "/", "*", "*">>>>
    /\ arg.config.exclude_files = <<>>
    /\ arg.config.exclude_binary_extensions = <<>>
    /\ tree[<<NameAX>>] = FileEntry(0)
    /\ tree[<<NameB>>].kind = "none"

\* the bytes of a path are text: readable, no NUL byte, valid UTF-8
ReadableText(file) ==
    /\ file.exists
    /\ \A k \in 1..Len(file.bytes) : file.bytes[k] \notin {NUL, BadByte}

\* where every worker stands: it transforms only what it has read, and it
\* writes only what it has transformed
WorkersInOrder ==
    \A w \in 1..Len(wk) :
        /\ wk[w].st \in {"read", "write"} =>
              /\ wk[w].idx \in claimed
              /\ slots[wk[w].idx] = <<>>
              /\ wk[w].content = fs0[files[wk[w].idx]].bytes
              /\ WritesTo(files[wk[w].idx]) = {}
              /\ \A v \in 1..Len(wk) :
                    (v # w /\ wk[v].st # "idle") => wk[v].idx # wk[w].idx
        /\ wk[w].st = "write" =>
              /\ wk[w].processed = process_content(wk[w].content).processed
              /\ wk[w].modified = process_content(wk[w].content).modified

\* every fs.write issued so far: not in a dry run, on a path that was read
\* and decoded, with at least one modified line, once per path, carrying the
\* transform of the bytes read
WritesJustified ==
    \A k \in 1..Len(writes) :
        LET before == fs0[writes[k].path]
        IN  /\ ~dry_run
            /\ ReadableText(before)
            /\ process_content(before.bytes).modified # <<>>
            /\ writes[k].content = process_content(before.bytes).processed
            /\ \E i \in claimed : files[i] = writes[k].path
            /\ \A l \in 1..Len(writes) : l # k => writes[l].path # writes[k].path

\* a step that issues a write is taken by the worker holding that path, and
\* it writes the transform of what that worker read
WriteByOwner ==
    writes' # writes =>
        /\ Len(writes') = Len(writes) + 1
        /\ SubSeq(writes', 1, Len(writes)) = writes
        /\ LET new == writes'[Len(writes')]
               w == new.worker
           IN  /\ wk[w].st = "write"
               /\ files[wk[w].idx] = new.path
               /\ new.content = process_content(wk[w].content).processed
               /\ \A v \in 1..Len(wk) : v # w => wk[v].idx # wk[w].idx
               /\ slots[wk[w].idx] = <<>>
               /\ slots'[wk[w].idx] # <<>>

\* C26: for each file the order is read, checks, transform, then possibly
\* the write; a write needs dry_run off, a successful read and decode and a
\* modified line, happens at most once per path, goes to the path that was
\* read with the transform of the bytes its worker read, and no worker
\* writes a path held by another
C26_FileEventOrder ==
    /\ [](pc \in {"running", "done"} => (WorkersInOrder /\ WritesJustified))
    /\ [][WriteByOwner]_vars

C26_Witness ==
    /\ pc = "done"
    /\ Len(writes) = 2
    /\ writes[1].worker # writes[2].worker
    /\ writes[1].path # writes[2].path
    /\ fs0[writes[1].path] = File(DirtyCrLf)

\* C27: calls of MemFs made by different workers at the same time never
\* conflict: no borrow of the file map fails, and the bytes a worker got from
\* a read are the content of that path before or after a write of it
C27_MemFsRaceFree ==
    /\ fault = {}
    /\ pc # "panicked"
    /\ \A w \in Workers :
          wk[w].st \notin {"idle", "reading"} =>
              LET before == fs0[files[wk[w].idx]].bytes
              IN  wk[w].content \in {before, process_content(before).processed}

(***************************************************************************)
(* Two runs of the engine over the same path list: the first one writes,   *)
(* on a disk where every write succeeds; the second one, dry or not, works *)
(* on what the first one left                                              *)
(***************************************************************************)
\* a path holds one of the sample contents, a line with two trailing spaces,
\* or nothing
InitTwice ==
    /\ NoContent
    /\ NoCall
    /\ LET DirtyTwo == <<LetterA, SP, SP, LF>>
       IN  fs \in [Paths -> {File(c) : c \in {Clean, Dirty, DirtyTwo, DirtyCrLf,
                                              DirtyTail, Binary, BadUtf8}}
                            \cup {Missing}]
    /\ writable = [p \in Paths |-> TRUE]
    /\ fs0 = fs
    /\ files \in PathLists
    /\ dry_run = FALSE
    /\ threads \in 1..MaxThreads
    /\ claimed = {}
    /\ wk = [w \in 1..threads |-> Idle]
    /\ slots = [i \in 1..Len(files) |-> <<>>]
    /\ writes = <<>>
    /\ file_results = <<>>
    /\ summary = <<>>
    /\ raced = FALSE
    /\ fault = {}
    /\ pc = "running"

\* process_files_with_results is called again with the same engine and the
\* same paths once the first call has returned
RunAgain ==
    /\ pc = "done"
    /\ previous = <<>>
    /\ previous' = <<[file_results |-> file_results,
                     written |-> {writes[k].path : k \in 1..Len(writes)},
                     fs0 |-> fs0, fs |-> fs]>>
    /\ dry_run' \in BOOLEAN
    /\ fs0' = fs
    /\ claimed' = {}
    /\ wk' = [w \in Workers |-> Idle]
    /\ slots' = [i \in 1..Len(files) |-> <<>>]
    /\ writes' = <<>>
    /\ file_results' = <<>>
    /\ summary' = <<>>
    /\ pc' = "running"
    /\ UNCHANGED <<run, tree, pool, arg, ret, contentVars, fs, writable, files,
                   threads, raced, fault>>

NextTwice ==
    \/ \E w \in Workers, i \in 1..MaxFiles : StartFile(w, i)
    \/ \E w \in Workers : Transform(w)
    \/ \E w \in Workers : WriteBack(w)
    \/ Finish
    \/ RunAgain

SpecTwice == InitTwice /\ [][NextTwice]_vars

\* C29: a run after a run that wrote with no write failure issues no write
\* and leaves every file as the first run left it; its result for a file
\* without an error has had_changes false and no modified line, and a file
\* that had an error in the first run gets the same result again and still
\* holds what it held before the first run
C29_SecondRunChangesNothing ==
    previous # <<>> =>
        /\ writes = <<>>
        /\ fs = previous[1].fs
        /\ \A i \in 1..Len(files) :
              slots[i] # <<>> =>
                  LET now == slots[i][2]
                      before == previous[1].file_results[i][2]
                  IN  /\ slots[i][1] = files[i]
                      /\ now.error = None =>
                            ~now.had_changes /\ now.lines_modified = <<>>
                      /\ before.error # None =>
                            /\ now = before
                            /\ fs[files[i]] = previous[1].fs0[files[i]]
        /\ pc = "done" => file_results = slots

C29_Witness ==
    /\ previous # <<>>
    /\ pc = "done"
    /\ ~dry_run
    /\ Len(files) = 2
    /\ \E p \in previous[1].written : fs[p] # previous[1].fs0[p]
    /\ \E i \in 1..Len(files) : previous[1].file_results[i][2].error = BinaryError

=============================================================================
